---- MODULE Spec2Model ----
(***************************************************************************)
(* Model of perfect_sum.py: find_matching_subset(population_list,          *)
(* target_sum), a subset-sum search over a list of positive integers, and  *)
(* of a caller that invokes it again on the list it passed.                *)
(*                                                                         *)
(* A Python value returned by the function is modelled as a record         *)
(* [kind, elems]: kind tells a list from a tuple (in Python () # []), and  *)
(* elems is the sequence of integers it holds.                             *)
(***************************************************************************)
EXTENDS Integers, Sequences, FiniteSets

\* Bounds of the model.
MaxLen == 3
MaxVal == 5
MaxTarget == 9
MaxCalls == 2

VARIABLES
    population_list,  \* the caller's list object (sorted in place by the function)
    passed,           \* contents of population_list when the current call began
    target_sum,       \* the target of the current call
    pc,               \* position of the current call: "base", "for_depth", "test", "done"
    subset_depth,     \* loop variable of line 82
    indices,          \* index positions of the combination itertools yielded last
    result,           \* value returned by the current call
    ret_line,         \* source line of the return statement taken (0: none yet)
    did_sort,         \* the current call executed line 79
    n_tested,         \* combinations the current call has drawn from the generator
    skipped,          \* depths the current call skipped at line 90
    calls,            \* number of calls begun
    prev_passed,      \* passed, target_sum and result of the previous call
    prev_target,
    prev_result

vars == << population_list, passed, target_sum, pc, subset_depth,
           indices, result, ret_line, did_sort, n_tested, skipped, calls,
           prev_passed, prev_target, prev_result >>

----------------------------------------------------------------------------
\* Values of the program

Values == UNION { [1..n -> 1..MaxVal] : n \in 0..MaxLen }

NoResult == [kind |-> "none", elems |-> << >>]

\* The literal [] of lines 76 and 95.
EmptyList == [kind |-> "list", elems |-> << >>]

ListOf(s) == [kind |-> "list", elems |-> s]

TupleOf(s) == [kind |-> "tuple", elems |-> s]

----------------------------------------------------------------------------
\* Pure helpers

RECURSIVE Sum(_)
Sum(s) == IF s = << >> THEN 0 ELSE Head(s) + Sum(Tail(s))

\* Stable insertion of x into a descending sequence: after every element >= x.
RECURSIVE InsertDescending(_, _)
InsertDescending(x, s) ==
    IF s = << >> THEN << x >>
    ELSE IF Head(s) >= x THEN << Head(s) >> \o InsertDescending(x, Tail(s))
    ELSE << x >> \o s

RECURSIVE InsertAscending(_, _)
InsertAscending(x, s) ==
    IF s = << >> THEN << x >>
    ELSE IF Head(s) <= x THEN << Head(s) >> \o InsertAscending(x, Tail(s))
    ELSE << x >> \o s

RECURSIVE SortFrom(_, _)
SortFrom(acc, s) ==
    IF s = << >> THEN acc ELSE SortFrom(InsertDescending(Head(s), acc), Tail(s))

RECURSIVE SortAscendingFrom(_, _)
SortAscendingFrom(acc, s) ==
    IF s = << >> THEN acc ELSE SortAscendingFrom(InsertAscending(Head(s), acc), Tail(s))

\* Mutants of the sort of line 79: reverse=True forgotten; list.reverse() in
\* place of list.sort().
SortAscending(s) == SortAscendingFrom(<< >>, s)

ReverseOnly(s) == [i \in 1..Len(s) |-> s[Len(s) + 1 - i]]

\* population_list.sort(key=int, reverse=True)
SortDescending(s) == SortFrom(<< >>, s)

\* Mutant of the first base case: the test for the full set is lost.
IsEmptyOnly(total, target) == total = 0

\* Line 70: total_population_sum == target_sum or total_population_sum == 0
IsFullOrEmpty(total, target) == total = target \/ total = 0

\* Mutant of the second base case: the comparison is turned round.
IsUnreachableFlipped(total, target) == total > target

\* Line 75: total_population_sum < target_sum
IsUnreachable(total, target) == total < target

\* Mutant of the slice of line 89: population_list[1:subset_depth].
PrefixFromOne(list, depth) == SubSeq(list, 2, depth)

\* population_list[0:subset_depth]
Prefix(list, depth) == SubSeq(list, 1, depth)

\* Mutant of the pruning test: <= for <.
SkipsDepthOrEqual(list, depth, target) == Sum(Prefix(list, depth)) <= target

\* Line 89: sum(population_list[0:subset_depth]) < target_sum
SkipsDepth(list, depth, target) == Sum(Prefix(list, depth)) < target

\* Line 82: subset_depth in range(len(population_list))
DepthInRange(depth, list) == depth < Len(list)

\* Mutant of the match test: >= for ==.
SumMatchesOrExceeds(subset, target) == Sum(subset) >= target

\* Line 92: sum(population_subset) == target_sum
SumMatches(subset, target) == Sum(subset) = target

\* itertools.combinations(pool, r): the first index tuple, range(r) (1-based here).
FirstIndices(r) == [i \in 1..r |-> i]

\* The positions that can still advance: indices[i] != i + n - r.
Movable(ind, n) == { i \in 1..Len(ind) : ind[i] # i + n - Len(ind) }

HasNextIndices(ind, n) == Movable(ind, n) # {}

\* The rightmost movable position advances; the positions right of it follow.
NextIndices(ind, n) ==
    LET i == CHOOSE m \in Movable(ind, n) : \A o \in Movable(ind, n) : o <= m
    IN  [j \in 1..Len(ind) |-> IF j < i THEN ind[j] ELSE ind[i] + 1 + (j - i)]

\* tuple(pool[i] for i in indices)
Select(pool, ind) == [i \in 1..Len(ind) |-> pool[ind[i]]]

----------------------------------------------------------------------------
\* The state machine

Init ==
    /\ population_list \in Values
    /\ passed = population_list
    /\ target_sum \in 0..MaxTarget
    /\ pc = "base"
    /\ subset_depth = 0
    /\ indices = << >>
    /\ result = NoResult
    /\ ret_line = 0
    /\ did_sort = FALSE
    /\ n_tested = 0
    /\ skipped = {}
    /\ calls = 1
    /\ prev_passed = << >>
    /\ prev_target = 0
    /\ prev_result = NoResult

history == << calls, prev_passed, prev_target, prev_result >>

\* Lines 67-71: the full set, or an empty list, is returned as it is.
ReturnInput ==
    /\ pc = "base"
    /\ IsFullOrEmpty(Sum(population_list), target_sum)
    /\ result' = ListOf(population_list)
    /\ ret_line' = 71
    /\ pc' = "done"
    /\ UNCHANGED << population_list, passed, target_sum, subset_depth, indices,
                    did_sort, n_tested, skipped, history >>

\* Lines 75-76: the target is above the sum of the whole list.
ReturnUnreachable ==
    /\ pc = "base"
    /\ ~IsFullOrEmpty(Sum(population_list), target_sum)
    /\ IsUnreachable(Sum(population_list), target_sum)
    /\ result' = EmptyList
    /\ ret_line' = 76
    /\ pc' = "done"
    /\ UNCHANGED << population_list, passed, target_sum, subset_depth, indices,
                    did_sort, n_tested, skipped, history >>

\* Line 79, then the loop of line 82 begins.
SortList ==
    /\ pc = "base"
    /\ ~IsFullOrEmpty(Sum(population_list), target_sum)
    /\ ~IsUnreachable(Sum(population_list), target_sum)
    /\ population_list' = SortDescending(population_list)
    /\ did_sort' = TRUE
    /\ subset_depth' = 0
    /\ pc' = "for_depth"
    /\ UNCHANGED << passed, target_sum, indices, result, ret_line, n_tested,
                    skipped, history >>

\* Lines 89-90: this depth cannot reach the target.
SkipDepth ==
    /\ pc = "for_depth"
    /\ DepthInRange(subset_depth, population_list)
    /\ SkipsDepth(population_list, subset_depth, target_sum)
    /\ skipped' = skipped \cup { subset_depth }
    /\ subset_depth' = subset_depth + 1
    /\ UNCHANGED << population_list, passed, target_sum, pc, indices, result,
                    ret_line, did_sort, n_tested, history >>

\* Line 91: the generator of this depth yields its first combination.
EnterDepth ==
    /\ pc = "for_depth"
    /\ DepthInRange(subset_depth, population_list)
    /\ ~SkipsDepth(population_list, subset_depth, target_sum)
    /\ indices' = FirstIndices(subset_depth)
    /\ n_tested' = n_tested + 1
    /\ pc' = "test"
    /\ UNCHANGED << population_list, passed, target_sum, subset_depth, result,
                    ret_line, did_sort, skipped, history >>

\* Lines 92-93: the combination sums to the target and is returned.
ReturnMatch ==
    /\ pc = "test"
    /\ SumMatches(Select(population_list, indices), target_sum)
    /\ result' = TupleOf(Select(population_list, indices))
    /\ ret_line' = 93
    /\ pc' = "done"
    /\ UNCHANGED << population_list, passed, target_sum, subset_depth, indices,
                    did_sort, n_tested, skipped, history >>

\* Lines 91-92: no match, the generator yields the next combination.
AdvanceCombination ==
    /\ pc = "test"
    /\ ~SumMatches(Select(population_list, indices), target_sum)
    /\ HasNextIndices(indices, Len(population_list))
    /\ indices' = NextIndices(indices, Len(population_list))
    /\ n_tested' = n_tested + 1
    /\ UNCHANGED << population_list, passed, target_sum, pc, subset_depth, result,
                    ret_line, did_sort, skipped, history >>

\* Line 91: the generator is exhausted, the loop of line 82 goes on.
ExhaustDepth ==
    /\ pc = "test"
    /\ ~SumMatches(Select(population_list, indices), target_sum)
    /\ ~HasNextIndices(indices, Len(population_list))
    /\ indices' = << >>
    /\ subset_depth' = subset_depth + 1
    /\ pc' = "for_depth"
    /\ UNCHANGED << population_list, passed, target_sum, result, ret_line,
                    did_sort, n_tested, skipped, history >>

\* Line 95: every depth of range(len(population_list)) is done.
ReturnEmpty ==
    /\ pc = "for_depth"
    /\ ~DepthInRange(subset_depth, population_list)
    /\ result' = EmptyList
    /\ ret_line' = 95
    /\ pc' = "done"
    /\ UNCHANGED << population_list, passed, target_sum, subset_depth, indices,
                    did_sort, n_tested, skipped, history >>

\* A call begins on the list `list` with target `target` (line 58).
BeginCall(list, target) ==
    /\ pc = "done"
    /\ calls < MaxCalls
    /\ calls' = calls + 1
    /\ prev_passed' = passed
    /\ prev_target' = target_sum
    /\ prev_result' = result
    /\ population_list' = list
    /\ passed' = list
    /\ target_sum' = target
    /\ pc' = "base"
    /\ subset_depth' = 0
    /\ indices' = << >>
    /\ result' = NoResult
    /\ ret_line' = 0
    /\ did_sort' = FALSE
    /\ n_tested' = 0
    /\ skipped' = {}

\* The caller invokes the function again on the same list object and target.
Reinvoke == BeginCall(population_list, target_sum)

\* The caller invokes it on the same list object with another target.
Retarget ==
    \E t \in (0..MaxTarget) \ { target_sum } : BeginCall(population_list, t)

Next ==
    \/ ReturnInput
    \/ ReturnUnreachable
    \/ SortList
    \/ SkipDepth
    \/ EnterDepth
    \/ ReturnMatch
    \/ AdvanceCombination
    \/ ExhaustDepth
    \/ ReturnEmpty
    \/ Reinvoke

Spec == Init /\ [][Next]_vars

NextRetarget == Next \/ Retarget

SpecRetarget == Init /\ [][NextRetarget]_vars

----------------------------------------------------------------------------
\* Vocabulary of the properties

Count(v, s) == Cardinality({ i \in DOMAIN s : s[i] = v })

SubMultiset(a, b) == \A i \in DOMAIN a : Count(a[i], a) <= Count(a[i], b)

SameMultiset(a, b) == SubMultiset(a, b) /\ SubMultiset(b, a)

IsDescending(s) == \A i \in DOMAIN s : \A j \in DOMAIN s : i < j => s[i] >= s[j]

\* The index tuples of the size-k subsets of an n-element list.
Combos(n, k) == { c \in [1..k -> 1..n] : \A i \in 1..(k - 1) : c[i] < c[i + 1] }

AllCombos(n) == UNION { Combos(n, k) : k \in 0..n }

SubsetExists(list, target) ==
    \E c \in AllCombos(Len(list)) : Sum(Select(list, c)) = target

LexLess(a, b) ==
    \E i \in DOMAIN a : a[i] < b[i] /\ \A j \in 1..(i - 1) : a[j] = b[j]

\* Size ascending, then lexicographic over index positions.
Before(a, b) == Len(a) < Len(b) \/ (Len(a) = Len(b) /\ LexLess(a, b))

IsBaseCase(list, target) ==
    Sum(list) = target \/ list = << >> \/ Sum(list) < target

\* The search of lines 82-95 without lines 89-90: the first combination, over the
\* sizes of range(len(list)), that sums to target, or [] when there is none.
UnprunedSearch(list, target) ==
    LET n == Len(list)
        hits == { c \in UNION { Combos(n, k) : k \in 0..(n - 1) } :
                    Sum(Select(list, c)) = target }
    IN  IF hits = {} THEN EmptyList
        ELSE TupleOf(Select(list, CHOOSE c \in hits : \A d \in hits : d = c \/ Before(c, d)))

----------------------------------------------------------------------------
\* C1: whenever the call returns anything other than the not-found value [], the
\* elements returned sum to the target and form a sub-multiset of the input.
C1_ReturnedSubsetIsSound ==
    (pc = "done" /\ result # EmptyList) =>
        /\ Sum(result.elems) = target_sum
        /\ SubMultiset(result.elems, passed)

\* A match found by the search that uses a repeated value twice.
C1_Witness ==
    /\ pc = "done"
    /\ ret_line = 93
    /\ Len(result.elems) = 2
    /\ result.elems[1] = result.elems[2]

\* C2: the call returns the not-found value [] exactly when no subset of the
\* input (of any size 0..len) sums to the target, and otherwise returns a subset
\* that sums to it.
C2_NotFoundIffNoSubset ==
    pc = "done" =>
        /\ (result = EmptyList) <=> ~SubsetExists(passed, target_sum)
        /\ SubsetExists(passed, target_sum) => Sum(result.elems) = target_sum

\* C3: when the sum of the whole input equals the target the call returns the
\* input itself, from line 71, without sorting and without drawing a combination.
C3_FullSetReturned ==
    Sum(passed) = target_sum =>
        /\ ~did_sort
        /\ n_tested = 0
        /\ population_list = passed
        /\ pc = "done" => (result = ListOf(passed) /\ ret_line = 71)

\* The full set is returned in the order passed, which is not the sorted order.
C3_Witness ==
    /\ pc = "done"
    /\ Sum(passed) = target_sum
    /\ Len(passed) = MaxLen
    /\ ~IsDescending(passed)
    /\ result.elems = passed

\* C4: for target 0 the call returns the empty subset as an answer (from the
\* return of line 71 or of line 93, not from a not-found return).
C4_ZeroTargetEmptySubset ==
    (pc = "done" /\ target_sum = 0) =>
        /\ result.elems = << >>
        /\ result.kind \in { "list", "tuple" }
        /\ ret_line = (IF passed = << >> THEN 71 ELSE 93)

\* Target 0 on a non-empty input: the search finds the empty combination.
C4_Witness ==
    /\ pc = "done"
    /\ target_sum = 0
    /\ passed # << >>
    /\ result = TupleOf(<< >>)

\* C5: when the target is above the sum of the whole input the call returns the
\* not-found value [] from a base case: the list is not sorted and no combination
\* is drawn.
C5_UnreachableTargetNotFound ==
    Sum(passed) < target_sum =>
        /\ ~did_sort
        /\ n_tested = 0
        /\ skipped = {}
        /\ population_list = passed
        /\ pc = "done" => (result = EmptyList /\ ret_line \in { 71, 76 })

\* A non-empty input whose sum is below the target.
C5_Witness ==
    /\ pc = "done"
    /\ passed # << >>
    /\ Sum(passed) < target_sum
    /\ ret_line = 76

\* C6: the value returned when no subset exists differs from the value returned
\* when the empty subset is the answer, a returned subset sums to the target, and
\* an empty subset is returned as an answer only for target 0.
C6_NotFoundDistinctFromEmptySubset ==
    pc = "done" =>
        /\ (calls >= 2 /\ ~SubsetExists(passed, prev_target) /\ target_sum = 0)
               => result # prev_result
        /\ SubsetExists(passed, target_sum) => Sum(result.elems) = target_sum
        /\ (result.elems = << >> /\ SubsetExists(passed, target_sum)) => target_sum = 0

\* C7: a call with the same target on the list object the previous call was
\* given, and may have sorted in place, returns what the previous call returned.
C7_Deterministic ==
    (pc = "done" /\ calls >= 2 /\ prev_target = target_sum) => result = prev_result

\* The second call received the object the first call had reordered, and matched.
C7_Witness ==
    /\ pc = "done"
    /\ calls >= 2
    /\ passed # prev_passed
    /\ ret_line = 93
    /\ result = prev_result

\* C8: a subset returned by the search is the combination at `indices` of the
\* descending-sorted input, and no combination before it in the order (size
\* ascending, then lexicographic over index positions) sums to the target.
C8_FirstMatchWins ==
    (pc = "done" /\ ret_line = 93) =>
        /\ IsDescending(population_list)
        /\ indices \in Combos(Len(population_list), subset_depth)
        /\ result.elems = Select(population_list, indices)
        /\ \A c \in AllCombos(Len(population_list)) :
               Before(c, indices) => Sum(Select(population_list, c)) # target_sum

\* The match returned is followed, in the same size, by another match.
C8_Witness ==
    /\ pc = "done"
    /\ ret_line = 93
    /\ \E c \in Combos(Len(population_list), subset_depth) :
           /\ Before(indices, c)
           /\ Sum(Select(population_list, c)) = target_sum

\* C9: on the sorted list the sum of the first k elements bounds the sum of every
\* size-k subset, no skipped size holds a subset summing to the target, and the
\* search returns what the search without the pruning test returns.
C9_PruningSound ==
    did_sort =>
        /\ \A c \in AllCombos(Len(population_list)) :
               Sum(Select(population_list, c)) <= Sum(Prefix(population_list, Len(c)))
        /\ \A k \in skipped : \A c \in Combos(Len(population_list), k) :
               Sum(Select(population_list, c)) # target_sum
        /\ pc = "done" => result = UnprunedSearch(population_list, target_sum)

\* A search that skipped a size and then returned a match.
C9_Witness ==
    /\ pc = "done"
    /\ ret_line = 93
    /\ Cardinality(skipped) >= 2

\* C10: after a base-case return the caller's list is as passed; after any other
\* return it is sorted in descending order and is a permutation of what was passed.
C10_InputFrame ==
    pc = "done" =>
        IF IsBaseCase(passed, target_sum)
        THEN population_list = passed /\ ~did_sort
        ELSE /\ did_sort
             /\ IsDescending(population_list)
             /\ Len(population_list) = Len(passed)
             /\ SameMultiset(population_list, passed)

\* A search that reordered the caller's list and ended without a match.
C10_Witness ==
    /\ pc = "done"
    /\ ret_line = 95
    /\ population_list # passed

====
